---- MODULE Spec2Model ----
(***************************************************************************)
(* Beacon (WAVE BSM) traffic generation and reception accounting of        *)
(* scratch/vanet-routing-compare.cc on the discrete-event timeline of the  *)
(* simulator.  Simulated time is counted in ticks, Second of them to one   *)
(* simulated second.  Positions and velocities are integer vectors.        *)
(***************************************************************************)
EXTENDS Integers, Sequences, FiniteSets

\* ------------------------------------------------------------------ bounds
\* coordinates of a position range over 0 .. MaxCoord
MaxCoord == 1
\* capacity of a socket's receive queue
MaxQueue == 2
\* datagrams of foreign origin the transport delivers in one run
MaxForeign == 1
\* routing packets the sink sockets receive in one run
MaxSinkPackets == 1

\* ----------------------------------------------------------- configuration
\* Seconds (1.0), in ticks: the period of CheckThroughput
Second == 3
\* --nodes=2
m_nNodes == 2
\* --interval=1
m_waveInterval == Second
\* line 795: double startTime = 1.0
startTime == Second
\* --txdist=1, in units of the coordinate grid
txDist == 1
\* the values of --totaltime and --gpsaccurcy the runs are started with
TotalTimes == {8, 14}
\* PacketSize of the on-off routing source, in bytes
RoutingPacketSize == 512
GpsAccuracies == {2, 3}
\* the default of --gpsaccurcy, 10000: the integer drawn below it is taken as
\* microseconds, which keeps the jitter below 10 ms
DefaultGpsAccuracy == 3
\* 145.0, the range the statics and scenario 5 give, in units of the grid
DefaultTxDist == 3
\* the values of --txdist and --scenario the runs are started with
TxDists == {1, 2}
Scenarios == {1, 5}

Nodes == 0 .. (m_nNodes - 1)
Coords == 0 .. MaxCoord
Positions == Coords \X Coords
Velocities == {<<0, 0>>, <<0, 1>>}

\* AssignIpAddresses: interface i of the container gets the i-th host address
m_adhocTxInterfaces == [i \in Nodes |-> i + 1]
ForeignAddr == m_nNodes + 1
NoTag == [found |-> FALSE, addr |-> 0]
Tag(a) == [found |-> TRUE, addr |-> a]
ForeignTags == {NoTag, Tag(ForeignAddr)}

VARIABLES
    position, velocity,
    m_txSafetyRangeSq, m_TotalTime, m_numWavePackets,
    wavePktSendCount, wavePktReceiveCount,
    wavePktInCoverageReceiveCount, wavePktExpectedReceiveCount,
    now, events, pc,
    inflight, rxQueue, closed, foreignLeft,
    chainStart, lastOp,
    bytesTotal, packetsReceived, sinkLeft,
    m_CSVfileName, m_CSVfileName2,
    hasMobility, m_gpsAccuracyNs, m_scenario,
    beaconsSent, ticksSkipped, beaconsDrained

vars == <<position, velocity, m_txSafetyRangeSq, m_TotalTime, m_numWavePackets,
          wavePktSendCount, wavePktReceiveCount,
          wavePktInCoverageReceiveCount, wavePktExpectedReceiveCount,
          now, events, pc, inflight, rxQueue, closed, foreignLeft,
          chainStart, lastOp, bytesTotal, packetsReceived, sinkLeft,
          m_CSVfileName, m_CSVfileName2,
          hasMobility, m_gpsAccuracyNs, m_scenario,
          beaconsSent, ticksSkipped, beaconsDrained>>

counters == <<wavePktSendCount, wavePktReceiveCount,
              wavePktInCoverageReceiveCount, wavePktExpectedReceiveCount>>
mobility == <<position, velocity>>
config == <<m_txSafetyRangeSq, m_TotalTime, m_numWavePackets, chainStart,
            hasMobility, m_gpsAccuracyNs, m_scenario>>
network == <<inflight, rxQueue, foreignLeft>>
sink == <<bytesTotal, packetsReceived, sinkLeft>>
\* the rows appended to the interval output and to the summary output
output == <<m_CSVfileName, m_CSVfileName2>>
\* what the sockets have been asked to do since the start of the run: the calls
\* of Send by each sender, the ticks each sender let pass without a Send, and
\* the packets Recv has returned
tally == <<beaconsSent, ticksSkipped, beaconsDrained>>

\* --------------------------------------------------------------- scheduler
Event(ts, fn, node, pktCount) ==
    [ts |-> ts, fn |-> fn, node |-> node, pktCount |-> pktCount]

ScheduleBeforeTies(q, ev) ==
    LET k == Cardinality({j \in 1 .. Len(q) : q[j].ts < ev.ts})
    IN  SubSeq(q, 1, k) \o <<ev>> \o SubSeq(q, k + 1, Len(q))

\* Simulator::Schedule: events run in time order, ties in insertion order
Schedule(q, ev) ==
    LET k == Cardinality({j \in 1 .. Len(q) : q[j].ts <= ev.ts})
    IN  SubSeq(q, 1, k) \o <<ev>> \o SubSeq(q, k + 1, Len(q))

\* Simulator::Run: the next event to invoke
HeadIs(fn) == pc = "running" /\ events # <<>> /\ Head(events).fn = fn

\* ---------------------------------------------------------------- geometry
SenderMovingAlways(v) == TRUE

\* lines 387-395
SenderMoving(v) == ~(v[1] = 0 /\ v[2] = 0)

ReceiverMovingAlways(v) == TRUE

\* lines 336-344 and 424-432
ReceiverMoving(v) == v[1] # 0 \/ v[2] # 0

getDistSqX(n1, n2) ==
    LET rx == position[n1]
        tx == position[n2]
    IN  (tx[1] - rx[1]) * (tx[1] - rx[1])

getDistSq(n1, n2) ==
    LET rx == position[n1]
        tx == position[n2]
    IN  (tx[1] - rx[1]) * (tx[1] - rx[1]) + (tx[2] - rx[2]) * (tx[2] - rx[2])

\* ------------------------------------------------------------------- setup
RECURSIVE ScheduleAllExceptFirst(_, _, _, _)
ScheduleAllExceptFirst(q, i, jit, pktCount) ==
    IF i = m_nNodes THEN q
    ELSE IF i = 0 THEN ScheduleAllExceptFirst(q, 1, jit, pktCount)
    ELSE ScheduleAllExceptFirst(
             Schedule(q, Event(startTime + jit[i], "GenerateWaveTraffic",
                               i, pktCount)),
             i + 1, jit, pktCount)

\* SetupWaveMessages, the loop of lines 805-825: one chain per node, the
\* first tick at startTime plus the node's jitter
RECURSIVE ScheduleAll(_, _, _, _)
ScheduleAll(q, i, jit, pktCount) ==
    IF i = m_nNodes THEN q
    ELSE ScheduleAll(
             Schedule(q, Event(startTime + jit[i], "GenerateWaveTraffic",
                               i, pktCount)),
             i + 1, jit, pktCount)

\* line 944: scenario 5 sets the threshold, over what the command line gave
ScenarioSafetyRangeSq(scenario, rangeSq) ==
    IF scenario = 5 THEN DefaultTxDist * DefaultTxDist ELSE rangeSq

\* SetupAdhocMobilityNodes with a trace file that names every node
InstalledOnAll == [i \in Nodes |-> TRUE]

\* the state Run () has built when it reaches line 988, mob[i] telling whether
\* a mobility model has been aggregated to node i
InitRun(mob, totaltime, gpsAccuracy) ==
    /\ hasMobility = mob
    /\ position \in [Nodes -> Positions]
    /\ velocity \in [Nodes -> Velocities]
    /\ \A i \in Nodes :
          ~mob[i] => (position[i] = <<0, 0>> /\ velocity[i] = <<0, 0>>)
    /\ m_gpsAccuracyNs = gpsAccuracy
    /\ m_scenario = 1
    /\ beaconsSent = [i \in Nodes |-> 0]
    /\ ticksSkipped = [i \in Nodes |-> 0]
    /\ beaconsDrained = 0
    /\ m_txSafetyRangeSq = txDist * txDist
    /\ m_TotalTime = totaltime
    /\ m_numWavePackets = (totaltime - startTime) \div m_waveInterval
    /\ wavePktSendCount = 0
    /\ wavePktReceiveCount = 0
    /\ wavePktInCoverageReceiveCount = 0
    /\ wavePktExpectedReceiveCount = 0
    /\ now = 0
    /\ \E jit \in [Nodes -> 1 .. (gpsAccuracy - 1)] :
          /\ events = ScheduleAll(<<>>, 0, jit,
                          (totaltime - startTime) \div m_waveInterval)
          /\ chainStart = [i \in Nodes |-> startTime + jit[i]]
    /\ pc = "setup"
    /\ inflight = [s \in Nodes |-> [d \in Nodes |-> 0]]
    /\ rxQueue = [i \in Nodes |-> <<>>]
    /\ closed = [i \in Nodes |-> FALSE]
    /\ foreignLeft = MaxForeign
    /\ lastOp = [op |-> "Setup", node |-> 0, n |-> 0]
    /\ bytesTotal = 0
    /\ packetsReceived = 0
    /\ sinkLeft = MaxSinkPackets
    /\ m_CSVfileName = <<>>
    /\ m_CSVfileName2 = <<>>

InitWith(totaltime, gpsAccuracy) == InitRun(InstalledOnAll, totaltime, gpsAccuracy)

\* the experiment as main () has constructed it (lines 200-246), before
\* CommandSetup; the nodes' places and velocities are those the mobility
\* models will give them
InitConstructed ==
    /\ hasMobility = InstalledOnAll
    /\ position \in [Nodes -> Positions]
    /\ velocity \in [Nodes -> Velocities]
    /\ m_gpsAccuracyNs = 2
    /\ m_scenario = 1
    /\ beaconsSent = [i \in Nodes |-> 0]
    /\ ticksSkipped = [i \in Nodes |-> 0]
    /\ beaconsDrained = 0
    /\ m_txSafetyRangeSq = DefaultTxDist * DefaultTxDist
    /\ m_TotalTime = 8
    /\ m_numWavePackets = 1
    /\ wavePktSendCount = 0
    /\ wavePktReceiveCount = 0
    /\ wavePktInCoverageReceiveCount = 0
    /\ wavePktExpectedReceiveCount = 0
    /\ now = 0
    /\ events = <<>>
    /\ chainStart = [i \in Nodes |-> 0]
    /\ pc = "constructed"
    /\ inflight = [s \in Nodes |-> [d \in Nodes |-> 0]]
    /\ rxQueue = [i \in Nodes |-> <<>>]
    /\ closed = [i \in Nodes |-> FALSE]
    /\ foreignLeft = MaxForeign
    /\ lastOp = [op |-> "Constructed", node |-> 0, n |-> 0]
    /\ bytesTotal = 0
    /\ packetsReceived = 0
    /\ sinkLeft = MaxSinkPackets
    /\ m_CSVfileName = <<>>
    /\ m_CSVfileName2 = <<>>

\* lines 510-543: the command line a gives the run length, the jitter bound,
\* the scenario and the range
CommandSetup(args) ==
    /\ pc = "constructed"
    /\ pc' = "configured"
    /\ \E a \in args :
          /\ m_TotalTime' = a.totaltime
          /\ m_gpsAccuracyNs' = a.gpsaccurcy
          /\ m_scenario' = a.scenario
          /\ m_txSafetyRangeSq' = a.txdist * a.txdist
    /\ lastOp' = [op |-> "CommandSetup", node |-> 0, n |-> 0]
    /\ UNCHANGED <<mobility, tally, counters, now, events, network, closed,
                   sink, output, m_numWavePackets, chainStart, hasMobility>>

\* lines 856-955, called first by Run (); the run length and the node count
\* stay as configured
SetupScenario ==
    /\ pc = "configured"
    /\ pc' = "scenario"
    /\ m_txSafetyRangeSq' = ScenarioSafetyRangeSq(m_scenario, m_txSafetyRangeSq)
    /\ lastOp' = [op |-> "SetupScenario", node |-> 0, n |-> 0]
    /\ UNCHANGED <<mobility, tally, counters, now, events, network, closed,
                   sink, output, m_TotalTime, m_numWavePackets, chainStart,
                   hasMobility, m_gpsAccuracyNs, m_scenario>>

\* lines 787-826, with the rest of the setup of Run () up to line 987
SetupWaveMessages ==
    /\ pc = "scenario"
    /\ pc' = "setup"
    /\ m_numWavePackets' = (m_TotalTime - startTime) \div m_waveInterval
    /\ \E jit \in [Nodes -> 1 .. (m_gpsAccuracyNs - 1)] :
          /\ events' = ScheduleAll(<<>>, 0, jit, m_numWavePackets')
          /\ chainStart' = [i \in Nodes |-> startTime + jit[i]]
    /\ lastOp' = [op |-> "SetupWaveMessages", node |-> 0, n |-> 0]
    /\ UNCHANGED <<mobility, tally, counters, now, network, closed,
                   sink, output, m_txSafetyRangeSq, m_TotalTime,
                   hasMobility, m_gpsAccuracyNs, m_scenario>>

Init == InitWith(8, 2)

\* ------------------------------------------------- GenerateWaveTraffic
ScanExpectedFirstOnly(j, txNodeId, cnt) ==
    IF 0 # txNodeId
       /\ ReceiverMoving(velocity[0])
       /\ getDistSq(txNodeId, 0) <= m_txSafetyRangeSq
    THEN cnt + 1
    ELSE cnt

ScanExpectedWithSelf(j, txNodeId, cnt) ==
    cnt + Cardinality({r \in Nodes :
              /\ ReceiverMoving(velocity[r])
              /\ getDistSq(txNodeId, r) <= m_txSafetyRangeSq})

\* lines 417-418: the scan comes to a candidate that has no mobility model
ScanAborts(txNodeId) == \E j \in Nodes \ {txNodeId} : ~hasMobility[j]

\* the scan of lines 409-442, candidate by candidate in container order, as
\* far as the first candidate without a mobility model
RECURSIVE ScanExpected(_, _, _)
ScanExpected(j, txNodeId, cnt) ==
    IF j = m_nNodes THEN cnt
    ELSE IF j # txNodeId /\ ~hasMobility[j] THEN cnt
    ELSE IF j # txNodeId
            /\ ReceiverMoving(velocity[j])
            /\ getDistSq(txNodeId, j) <= m_txSafetyRangeSq
         THEN ScanExpected(j + 1, txNodeId, cnt + 1)
         ELSE ScanExpected(j + 1, txNodeId, cnt)

\* socket->Send on the broadcast socket: one copy in flight to every other node
Broadcast(fl, s) ==
    [a \in Nodes |-> [d \in Nodes |->
        IF a = s /\ d # s THEN fl[a][d] + 1 ELSE fl[a][d]]]

HasBudgetAlways(pktCount) == TRUE

HasBudgetAboveOne(pktCount) == pktCount > 1

\* line 377
HasBudget(pktCount) == pktCount > 0

NextTickSameCount(ev) ==
    Event(ev.ts + m_waveInterval, "GenerateWaveTraffic", ev.node, ev.pktCount)

\* lines 445-446: the event the tick schedules
NextTick(ev) ==
    Event(ev.ts + m_waveInterval, "GenerateWaveTraffic", ev.node, ev.pktCount - 1)

CloseLeavesOpen(cl, i) == cl

\* line 450: socket->Close ()
Close(cl, i) == [cl EXCEPT ![i] = TRUE]

\* lines 383-384 and 417-418: the tick queries a node without a mobility model
TickAbortsSenderOnly(i, pktCount) == HasBudget(pktCount) /\ ~hasMobility[i]

\* A query of a node without a mobility model fails NS_ASSERT, which ends the
\* process; where assertions are compiled out the call through the null
\* pointer on the next line ends it.  Either way the handler goes no further.
TickAborts(i, pktCount) ==
    /\ HasBudget(pktCount)
    /\ \/ ~hasMobility[i]
       \/ SenderMoving(velocity[i]) /\ ScanAborts(i)

GenerateWaveTraffic(i) ==
    /\ HeadIs("GenerateWaveTraffic")
    /\ Head(events).node = i
    /\ LET ev == Head(events)
           pktCount == ev.pktCount
       IN  /\ now' = ev.ts
           /\ lastOp' = [op |-> "GenerateWaveTraffic", node |-> i, n |-> pktCount]
           /\ pc' = IF TickAborts(i, pktCount) THEN "aborted" ELSE pc
           /\ IF HasBudget(pktCount)
              THEN /\ IF hasMobility[i] /\ SenderMoving(velocity[i])
                      THEN /\ inflight' = Broadcast(inflight, i)
                           /\ beaconsSent' = [beaconsSent EXCEPT ![i] = @ + 1]
                           /\ wavePktSendCount' = wavePktSendCount + 1
                           /\ wavePktExpectedReceiveCount' =
                                  ScanExpected(0, i, wavePktExpectedReceiveCount)
                           /\ UNCHANGED ticksSkipped
                      ELSE /\ ticksSkipped' =
                                  IF hasMobility[i]
                                  THEN [ticksSkipped EXCEPT ![i] = @ + 1]
                                  ELSE ticksSkipped
                           /\ UNCHANGED <<inflight, beaconsSent, wavePktSendCount,
                                          wavePktExpectedReceiveCount>>
                   /\ events' = IF TickAborts(i, pktCount)
                                THEN Tail(events)
                                ELSE Schedule(Tail(events), NextTick(ev))
                   /\ UNCHANGED closed
              ELSE /\ closed' = Close(closed, i)
                   /\ events' = Tail(events)
                   /\ UNCHANGED <<inflight, beaconsSent, ticksSkipped,
                                  wavePktSendCount, wavePktExpectedReceiveCount>>
    /\ UNCHANGED <<mobility, config, beaconsDrained, wavePktReceiveCount,
                   wavePktInCoverageReceiveCount, rxQueue, foreignLeft,
                   sink, output>>

\* --------------------------------------------------- ReceiveWavePacket
ResolveAndCountDouble(i, node, addr, cnt) ==
    cnt + 2 * Cardinality({t \in Nodes :
                  /\ addr = m_adhocTxInterfaces[t]
                  /\ getDistSq(node, t) <= m_txSafetyRangeSq})

ResolveAndCountAnyDistance(i, node, addr, cnt) ==
    cnt + Cardinality({t \in Nodes : addr = m_adhocTxInterfaces[t]})

ResolveAndCountStrict(i, node, addr, cnt) ==
    cnt + Cardinality({t \in Nodes :
              /\ addr = m_adhocTxInterfaces[t]
              /\ getDistSq(node, t) < m_txSafetyRangeSq})

\* lines 354-368: every interface whose address matches the tag is examined
\* and getDistSq stops at a sender without a mobility model (line 312)
RECURSIVE ResolveAndCount(_, _, _, _)
ResolveAndCount(i, node, addr, cnt) ==
    IF i = m_nNodes THEN cnt
    ELSE IF addr = m_adhocTxInterfaces[i] /\ ~hasMobility[i] THEN cnt
    ELSE IF addr = m_adhocTxInterfaces[i]
            /\ getDistSq(node, i) <= m_txSafetyRangeSq
         THEN ResolveAndCount(i + 1, node, addr, cnt + 1)
         ELSE ResolveAndCount(i + 1, node, addr, cnt)

AccountPacketClamped(node, tag, c) ==
    IF /\ ReceiverMoving(velocity[node])
       /\ tag.found
       /\ c[2] < wavePktExpectedReceiveCount
    THEN <<c[1] + 1, ResolveAndCount(0, node, tag.addr, c[2])>>
    ELSE <<c[1] + 1, c[2]>>

AccountPacketSkipUntagged(node, tag, c) ==
    IF ~tag.found THEN c
    ELSE IF ReceiverMoving(velocity[node])
         THEN <<c[1] + 1, ResolveAndCount(0, node, tag.addr, c[2])>>
         ELSE <<c[1] + 1, c[2]>>

\* lines 326-370: one iteration of the loop, on the counters
\* <<wavePktReceiveCount, wavePktInCoverageReceiveCount>>
AccountPacket(node, tag, c) ==
    LET rcv == c[1] + 1
    IN  IF hasMobility[node] /\ ReceiverMoving(velocity[node]) /\ tag.found
        THEN <<rcv, ResolveAndCount(0, node, tag.addr, c[2])>>
        ELSE <<rcv, c[2]>>

\* lines 329-330 and 362: the iteration queries a node without a mobility
\* model, the receiver or the sender its tag resolves to
PacketAborts(node, tag) ==
    \/ ~hasMobility[node]
    \/ /\ ReceiverMoving(velocity[node])
       /\ tag.found
       /\ \E t \in Nodes : tag.addr = m_adhocTxInterfaces[t] /\ ~hasMobility[t]

DrainAborts(q, node) == \E k \in 1 .. Len(q) : PacketAborts(node, q[k])

DrainOne(q, node, c) ==
    [counts |-> AccountPacket(node, Head(q), c), queue |-> Tail(q)]

\* line 324: while ((packet = socket->Recv ())), until the queue is empty or
\* an iteration ends the run
RECURSIVE DrainAll(_, _, _)
DrainAll(q, node, c) ==
    IF q = <<>> THEN [counts |-> c, queue |-> q]
    ELSE IF PacketAborts(node, Head(q))
         THEN [counts |-> AccountPacket(node, Head(q), c), queue |-> Tail(q)]
         ELSE DrainAll(Tail(q), node, AccountPacket(node, Head(q), c))

ReceiveWavePacketCountsSent(i) ==
    /\ pc = "running"
    /\ ~closed[i]
    /\ rxQueue[i] # <<>>
    /\ LET r == DrainAll(rxQueue[i], i,
                    <<wavePktReceiveCount, wavePktInCoverageReceiveCount>>)
       IN  /\ wavePktReceiveCount' = r.counts[1]
           /\ wavePktInCoverageReceiveCount' = r.counts[2]
           /\ rxQueue' = [rxQueue EXCEPT ![i] = r.queue]
           /\ beaconsDrained' = beaconsDrained + Len(rxQueue[i]) - Len(r.queue)
    /\ pc' = IF DrainAborts(rxQueue[i], i) THEN "aborted" ELSE pc
    /\ lastOp' = [op |-> "ReceiveWavePacket", node |-> i, n |-> Len(rxQueue[i])]
    /\ wavePktSendCount' = wavePktSendCount + 1
    /\ UNCHANGED <<mobility, config, beaconsSent, ticksSkipped,
                   wavePktExpectedReceiveCount, now, events, inflight,
                   closed, foreignLeft, sink, output>>

ReceiveWavePacketSetsRange(i) ==
    /\ pc = "running"
    /\ ~closed[i]
    /\ rxQueue[i] # <<>>
    /\ LET r == DrainAll(rxQueue[i], i,
                    <<wavePktReceiveCount, wavePktInCoverageReceiveCount>>)
       IN  /\ wavePktReceiveCount' = r.counts[1]
           /\ wavePktInCoverageReceiveCount' = r.counts[2]
           /\ rxQueue' = [rxQueue EXCEPT ![i] = r.queue]
           /\ beaconsDrained' = beaconsDrained + Len(rxQueue[i]) - Len(r.queue)
    /\ pc' = IF DrainAborts(rxQueue[i], i) THEN "aborted" ELSE pc
    /\ lastOp' = [op |-> "ReceiveWavePacket", node |-> i, n |-> Len(rxQueue[i])]
    /\ m_txSafetyRangeSq' = txDist * txDist
    /\ UNCHANGED <<mobility, m_TotalTime, m_numWavePackets, chainStart,
                   hasMobility, m_gpsAccuracyNs, m_scenario,
                   beaconsSent, ticksSkipped, wavePktSendCount,
                   wavePktExpectedReceiveCount, now, events, inflight,
                   closed, foreignLeft, sink, output>>

ReceiveWavePacket(i) ==
    /\ pc = "running"
    /\ ~closed[i]
    /\ rxQueue[i] # <<>>
    /\ LET r == DrainAll(rxQueue[i], i,
                    <<wavePktReceiveCount, wavePktInCoverageReceiveCount>>)
       IN  /\ wavePktReceiveCount' = r.counts[1]
           /\ wavePktInCoverageReceiveCount' = r.counts[2]
           /\ rxQueue' = [rxQueue EXCEPT ![i] = r.queue]
           /\ beaconsDrained' = beaconsDrained + Len(rxQueue[i]) - Len(r.queue)
    /\ pc' = IF DrainAborts(rxQueue[i], i) THEN "aborted" ELSE pc
    /\ lastOp' = [op |-> "ReceiveWavePacket", node |-> i, n |-> Len(rxQueue[i])]
    /\ UNCHANGED <<mobility, config, beaconsSent, ticksSkipped, wavePktSendCount,
                   wavePktExpectedReceiveCount, now, events, inflight,
                   closed, foreignLeft, sink, output>>

\* ---------------------------------------------------------- ReceivePacket
\* lines 288-297: the sink socket is drained of the k routing packets queued
\* on it
ReceivePacket ==
    /\ pc = "running"
    /\ \E k \in 1 .. sinkLeft :
          /\ bytesTotal' = bytesTotal + k * RoutingPacketSize
          /\ packetsReceived' = packetsReceived + k
          /\ sinkLeft' = sinkLeft - k
    /\ lastOp' = [op |-> "ReceivePacket", node |-> 0, n |-> 0]
    /\ UNCHANGED <<mobility, config, tally, counters, now, events, pc, network,
                   closed, output>>

\* totalPacketsReceived and totalBytesTotal, never reset
totalPacketsReceived == MaxSinkPackets - sinkLeft
totalBytesTotal == totalPacketsReceived * RoutingPacketSize

\* ------------------------------------------------------------------ ratios
RECURSIVE Gcd(_, _)
Gcd(a, b) == IF b = 0 THEN a ELSE Gcd(b, a % b)

\* the quotient (double) a / (double) b of two counters as a fraction in
\* lowest terms; <<1, 0>> stands for inf and <<0, 0>> for NaN
Ratio(a, b) ==
    LET g == Gcd(a, b)
    IN  IF g = 0 THEN <<0, 0>> ELSE <<a \div g, b \div g>>

Zero == <<0, 1>>

WavePDRUnguarded(rcv, snt) == Ratio(rcv, snt)

\* lines 458-461
WavePDR(rcv, snt) == IF snt > 0 THEN Ratio(rcv, snt) ELSE Zero

WavePDR2GuardsActual(act, exp) == IF act > 0 THEN Ratio(act, exp) ELSE Zero

\* lines 463-466
WavePDR2(act, exp) == IF exp > 0 THEN Ratio(act, exp) ELSE Zero

\* ------------------------------------------------------ CheckThroughput
\* lines 473-485: the row written to m_CSVfileName
SampleRow ==
    [time |-> now',
     kbs |-> Ratio(bytesTotal * 8, 1000),
     packetsReceived |-> packetsReceived,
     wavePktReceiveCount |-> wavePktReceiveCount,
     wavePktSendCount |-> wavePktSendCount,
     wavePDR |-> WavePDR(wavePktReceiveCount, wavePktSendCount),
     wavePktExpectedReceiveCount |-> wavePktExpectedReceiveCount,
     wavePktInCoverageReceiveCount |-> wavePktInCoverageReceiveCount,
     wavePDR2 |-> WavePDR2(wavePktInCoverageReceiveCount,
                           wavePktExpectedReceiveCount)]

NextSampleTwoSeconds(t) == Event(t + 2 * Second, "CheckThroughput", 0, 0)

\* line 492: the event the sample schedules
NextSample(t) == Event(t + Second, "CheckThroughput", 0, 0)

CountersAfterSampleKeepSent ==
    <<wavePktSendCount, 0, wavePktInCoverageReceiveCount,
      wavePktExpectedReceiveCount>>

CountersAfterSampleKeepReceived ==
    <<0, wavePktReceiveCount, wavePktInCoverageReceiveCount,
      wavePktExpectedReceiveCount>>

CountersAfterSampleAllReset == <<0, 0, 0, 0>>

CountersAfterSampleResetActual == <<0, 0, 0, wavePktExpectedReceiveCount>>

\* lines 489-490: wavePktSendCount and wavePktReceiveCount are reset, the two
\* cumulative counters are not
CountersAfterSample ==
    <<0, 0, wavePktInCoverageReceiveCount, wavePktExpectedReceiveCount>>

\* called by Run () at line 988 before Simulator::Stop is scheduled, then run
\* as the event it schedules for itself
CheckThroughput ==
    /\ \/ /\ pc = "setup"
          /\ pc' = "running"
          /\ now' = now
          /\ events' = Schedule(
                           Schedule(events, NextSample(now)),
                           Event(m_TotalTime, "Stop", 0, 0))
       \/ /\ HeadIs("CheckThroughput")
          /\ pc' = pc
          /\ now' = Head(events).ts
          /\ events' = Schedule(Tail(events), NextSample(Head(events).ts))
    /\ m_CSVfileName' = Append(m_CSVfileName, SampleRow)
    /\ bytesTotal' = 0
    /\ packetsReceived' = 0
    /\ wavePktSendCount' = CountersAfterSample[1]
    /\ wavePktReceiveCount' = CountersAfterSample[2]
    /\ wavePktInCoverageReceiveCount' = CountersAfterSample[3]
    /\ wavePktExpectedReceiveCount' = CountersAfterSample[4]
    /\ lastOp' = [op |-> "CheckThroughput", node |-> 0, n |-> 0]
    /\ UNCHANGED <<mobility, config, tally, network, closed, sinkLeft, m_CSVfileName2>>

\* ------------------------------------------------------ Simulator::Stop
\* the stop event of line 990: Simulator::Run returns, later events never run
SimulatorStop ==
    /\ HeadIs("Stop")
    /\ now' = Head(events).ts
    /\ events' = Tail(events)
    /\ pc' = "stopped"
    /\ lastOp' = [op |-> "Stop", node |-> 0, n |-> 0]
    /\ UNCHANGED <<mobility, config, tally, counters, network, closed, sink, output>>

\* --------------------------------------------------------- end of Run ()
BsmPdrUnguarded(act, exp) == Ratio(act, exp)

\* lines 1024-1027
BsmPdr(act, exp) == IF exp > 0 THEN Ratio(act, exp) ELSE Zero

\* lines 993-1080, after Simulator::Run has returned: the summary row
WriteSummary ==
    /\ pc = "stopped"
    /\ pc' = "done"
    /\ m_CSVfileName2' =
           Append(m_CSVfileName2,
                  [bsm_pdr |-> BsmPdr(wavePktInCoverageReceiveCount,
                                      wavePktExpectedReceiveCount),
                   meanRoutingThroughputKbps |->
                       Ratio(totalBytesTotal * 8, m_TotalTime * 1000)])
    /\ lastOp' = [op |-> "WriteSummary", node |-> 0, n |-> 0]
    /\ UNCHANGED <<mobility, config, tally, counters, now, events, network, closed,
                   sink, m_CSVfileName>>

\* ------------------------------------------------- external collaborators
\* mobility oracle: the position or the velocity of a node changes
CourseChange(i) ==
    /\ pc = "running"
    /\ hasMobility[i]
    /\ \/ /\ \E p \in Positions \ {position[i]} :
                position' = [position EXCEPT ![i] = p]
          /\ UNCHANGED velocity
       \/ /\ \E v \in Velocities \ {velocity[i]} :
                velocity' = [velocity EXCEPT ![i] = v]
          /\ UNCHANGED position
    /\ lastOp' = [op |-> "Environment", node |-> 0, n |-> 0]
    /\ UNCHANGED <<config, tally, counters, now, events, pc, network, closed,
                   sink, output>>

\* mobility oracle and transport where delivery takes no time: a place or a
\* velocity changes only when no beacon waits in a socket, and the copies of
\* earlier beacons that have not been delivered by then never are
CourseChangeAfterDelivery(i) ==
    /\ pc = "running"
    /\ hasMobility[i]
    /\ \A d \in Nodes : rxQueue[d] = <<>>
    /\ \/ /\ \E p \in Positions \ {position[i]} :
                position' = [position EXCEPT ![i] = p]
          /\ UNCHANGED velocity
       \/ /\ \E v \in Velocities \ {velocity[i]} :
                velocity' = [velocity EXCEPT ![i] = v]
          /\ UNCHANGED position
    /\ inflight' = [s \in Nodes |-> [d \in Nodes |-> 0]]
    /\ lastOp' = [op |-> "Environment", node |-> 0, n |-> 0]
    /\ UNCHANGED <<config, tally, counters, now, events, pc, rxQueue,
                   foreignLeft, closed, sink, output>>

\* transport: a beacon in flight from s reaches the socket of d, tagged with
\* the address of s
Deliver(s, d) ==
    /\ pc = "running"
    /\ ~closed[d]
    /\ inflight[s][d] > 0
    /\ Len(rxQueue[d]) < MaxQueue
    /\ inflight' = [inflight EXCEPT ![s][d] = @ - 1]
    /\ rxQueue' = [rxQueue EXCEPT ![d] = Append(@, Tag(m_adhocTxInterfaces[s]))]
    /\ lastOp' = [op |-> "Environment", node |-> 0, n |-> 0]
    /\ UNCHANGED <<mobility, config, tally, counters, now, events, pc, closed,
                   foreignLeft, sink, output>>

\* transport: a datagram without a source address tag, or from an address
\* outside the transmitter interface table, reaches the socket of d
DeliverForeign(d) ==
    /\ pc = "running"
    /\ ~closed[d]
    /\ foreignLeft > 0
    /\ Len(rxQueue[d]) < MaxQueue
    /\ \E t \in ForeignTags : rxQueue' = [rxQueue EXCEPT ![d] = Append(@, t)]
    /\ foreignLeft' = foreignLeft - 1
    /\ lastOp' = [op |-> "Environment", node |-> 0, n |-> 0]
    /\ UNCHANGED <<mobility, config, tally, counters, now, events, pc, inflight,
                   closed, sink, output>>

\* ---------------------------------------------------------- specifications
Dispatch ==
    \/ \E i \in Nodes : GenerateWaveTraffic(i)
    \/ CheckThroughput
    \/ SimulatorStop

Next ==
    \/ \E i \in Nodes : GenerateWaveTraffic(i)
    \/ \E i \in Nodes : ReceiveWavePacket(i)
    \/ CheckThroughput
    \/ SimulatorStop
    \/ \E i \in Nodes : CourseChange(i)
    \/ \E s \in Nodes, d \in Nodes : Deliver(s, d)
    \/ \E d \in Nodes : DeliverForeign(d)
    \/ WriteSummary

\* beacons, the sampler and the summary, run with --totaltime 8, one jitter
\* value and no routing traffic
Spec == Init /\ [][Next]_vars

\* beacons and routing traffic and no datagram of foreign origin: the sink
\* sockets receive packets
NextSink ==
    \/ \E i \in Nodes : GenerateWaveTraffic(i)
    \/ \E i \in Nodes : ReceiveWavePacket(i)
    \/ ReceivePacket
    \/ CheckThroughput
    \/ SimulatorStop
    \/ \E i \in Nodes : CourseChange(i)
    \/ \E s \in Nodes, d \in Nodes : Deliver(s, d)
    \/ WriteSummary

SpecSink == Init /\ [][NextSink]_vars

\* a run of --totaltime=11 in which every beacon is lost in the air and a
\* datagram of foreign origin may arrive
InitLossy == InitWith(11, 2)

NextLossy ==
    \/ \E i \in Nodes : GenerateWaveTraffic(i)
    \/ \E i \in Nodes : ReceiveWavePacket(i)
    \/ CheckThroughput
    \/ SimulatorStop
    \/ \E i \in Nodes : CourseChange(i)
    \/ \E d \in Nodes : DeliverForeign(d)
    \/ WriteSummary

SpecLossy == InitLossy /\ [][NextLossy]_vars

\* scenario 1: every node keeps its velocity and stays within the safety range
\* of every other for the whole run, and no datagram of foreign origin arrives
InitSteady ==
    /\ InitWith(8, 2)
    /\ \A i \in Nodes, j \in Nodes : getDistSq(i, j) <= m_txSafetyRangeSq

NextSteady ==
    \/ \E i \in Nodes : GenerateWaveTraffic(i)
    \/ \E i \in Nodes : ReceiveWavePacket(i)
    \/ CheckThroughput
    \/ SimulatorStop
    \/ \E s \in Nodes, d \in Nodes : Deliver(s, d)
    \/ WriteSummary

SpecSteady == InitSteady /\ [][NextSteady]_vars

\* the generator chains alone, under every configured run length and jitter:
\* the transport delivers nothing
InitGen == \E t \in TotalTimes, g \in GpsAccuracies : InitWith(t, g)

NextGen ==
    \/ \E i \in Nodes : GenerateWaveTraffic(i)
    \/ CheckThroughput
    \/ SimulatorStop
    \/ \E i \in Nodes : CourseChange(i)
    \/ WriteSummary

SpecGen == InitGen /\ [][NextGen]_vars

\* a run of --totaltime=5 in which no beacon is delivered
InitFive == InitWith(5 * Second, 2)

SpecFive == InitFive /\ [][NextGen]_vars

\* the run from main () on: the command line gives a range and a scenario;
\* velocities and places stay as they are and every beacon may be delivered
ArgsStartup ==
    [totaltime : {8}, gpsaccurcy : {2}, txdist : TxDists, scenario : Scenarios]

NextStartup ==
    \/ CommandSetup(ArgsStartup)
    \/ SetupScenario
    \/ SetupWaveMessages
    \/ \E i \in Nodes : GenerateWaveTraffic(i)
    \/ \E i \in Nodes : ReceiveWavePacket(i)
    \/ CheckThroughput
    \/ SimulatorStop
    \/ \E s \in Nodes, d \in Nodes : Deliver(s, d)
    \/ WriteSummary

SpecStartup == InitConstructed /\ [][NextStartup]_vars

\* a run of --totaltime=11 over a transport that delivers a beacon at once or
\* never, to the other nodes only and once each, and nothing else
NextInstant ==
    \/ \E i \in Nodes : GenerateWaveTraffic(i)
    \/ \E i \in Nodes : ReceiveWavePacket(i)
    \/ CheckThroughput
    \/ SimulatorStop
    \/ \E i \in Nodes : CourseChangeAfterDelivery(i)
    \/ \E s \in Nodes, d \in Nodes : Deliver(s, d)
    \/ WriteSummary

SpecInstant == InitLossy /\ [][NextInstant]_vars

\* the generator chains from main () on, with a jitter bound up to and above
\* its default; the transport delivers nothing
ArgsJitter ==
    [totaltime : {9}, gpsaccurcy : {2, DefaultGpsAccuracy, 4},
     txdist : {txDist}, scenario : {1}]

NextJitter ==
    \/ CommandSetup(ArgsJitter)
    \/ SetupScenario
    \/ SetupWaveMessages
    \/ \E i \in Nodes : GenerateWaveTraffic(i)
    \/ CheckThroughput
    \/ SimulatorStop
    \/ \E i \in Nodes : CourseChange(i)
    \/ WriteSummary

SpecJitter == InitConstructed /\ [][NextJitter]_vars

\* runs of --totaltime=8 with a trace file that may leave nodes without a
\* mobility model; no beacon is delivered, a datagram of foreign origin may
\* arrive
InitNoMobility == \E mob \in [Nodes -> BOOLEAN] : InitRun(mob, 8, 2)

SpecNoMobility == InitNoMobility /\ [][NextLossy]_vars

\* the runs of --totaltime=8: one beacon per chain, closed before the stop event
\* or not, by the jitter of the chain's start
InitShort == \E g \in GpsAccuracies : InitWith(8, g)

\* Simulator::Run invokes the event at the head of the list as long as there is one
FairSpecGen == InitShort /\ [][NextGen]_vars /\ WF_vars(Dispatch)

\* ------------------------------------------------------------------ claims
\* what the claims speak of, stated apart from the operators of the model
IsMoving(i) == velocity[i] # <<0, 0>>

PlanarDistSq(a, b) ==
    LET dx == position[a][1] - position[b][1]
        dy == position[a][2] - position[b][2]
    IN  dx * dx + dy * dy

InCoverage(a, b) == PlanarDistSq(a, b) <= m_txSafetyRangeSq

Eligible(i) == {j \in Nodes \ {i} : IsMoving(j) /\ InCoverage(i, j)}

\* the step is an invocation of GenerateWaveTraffic for sender i
GenStep(i) == lastOp'.op = "GenerateWaveTraffic" /\ lastOp'.node = i

\* the step is an invocation of ReceiveWavePacket on the socket of node i
RecvStep(i) == lastOp'.op = "ReceiveWavePacket" /\ lastOp'.node = i

\* sender i has sent exactly one beacon in the step
OneBeaconSentBy(i) ==
    \A a \in Nodes, d \in Nodes :
        inflight'[a][d] = inflight[a][d] + (IF a = i /\ d # i THEN 1 ELSE 0)

\* the generator events pending for sender i, as places of the event list q
GenEventsOf(q, i) ==
    {k \in 1 .. Len(q) : q[k].fn = "GenerateWaveTraffic" /\ q[k].node = i}

Resolves(tag) ==
    tag.found /\ \E s \in Nodes : m_adhocTxInterfaces[s] = tag.addr

SenderOf(tag) == CHOOSE s \in Nodes : m_adhocTxInterfaces[s] = tag.addr

\* the beacons of queue q that count as received in coverage by receiver i
CountedIn(q, i) ==
    {k \in 1 .. Len(q) : Resolves(q[k]) /\ InCoverage(i, SenderOf(q[k]))}

Other(i) == CHOOSE j \in Nodes : j # i

\* C1: a tick with budget left whose sender is moving sends exactly one beacon,
\* adds 1 to wavePktSendCount and adds to wavePktExpectedReceiveCount the number
\* of other transmitters that are moving and within the safety range of the
\* sender; wavePktReceiveCount and wavePktInCoverageReceiveCount do not change.
C1_MovingTick ==
    [][\A i \in Nodes :
          (GenStep(i) /\ lastOp'.n > 0 /\ IsMoving(i)) =>
              /\ OneBeaconSentBy(i)
              /\ wavePktSendCount' = wavePktSendCount + 1
              /\ wavePktExpectedReceiveCount' =
                     wavePktExpectedReceiveCount + Cardinality(Eligible(i))
              /\ UNCHANGED <<wavePktReceiveCount, wavePktInCoverageReceiveCount>>
      ]_vars

C1_Witness ==
    /\ lastOp.op = "GenerateWaveTraffic" /\ lastOp.n > 0
    /\ IsMoving(lastOp.node)
    /\ Eligible(lastOp.node) # {}
    /\ inflight[lastOp.node][Other(lastOp.node)] = 1
    /\ wavePktSendCount = 1
    /\ wavePktExpectedReceiveCount = 1

\* C2: a tick whose sender is stationary sends no beacon and changes none of
\* the four counters.
C2_StationaryTick ==
    [][\A i \in Nodes :
          (GenStep(i) /\ ~IsMoving(i)) =>
              /\ UNCHANGED inflight
              /\ UNCHANGED counters
      ]_vars

C2_Witness ==
    /\ lastOp.op = "GenerateWaveTraffic" /\ lastOp.n > 0
    /\ ~IsMoving(lastOp.node)
    /\ IsMoving(Other(lastOp.node))
    /\ InCoverage(lastOp.node, Other(lastOp.node))
    /\ \A d \in Nodes : inflight[lastOp.node][d] = 0
    /\ wavePktSendCount = 0

\* C3: every tick with remainingCount n > 0, moving sender or not, leaves
\* exactly one generator event pending for its sender, at now + interval with
\* remainingCount n - 1.
C3_Reschedule ==
    [][\A i \in Nodes :
          (GenStep(i) /\ lastOp'.n > 0) =>
              /\ Cardinality(GenEventsOf(events', i)) = 1
              /\ \A k \in GenEventsOf(events', i) :
                    /\ events'[k].ts = now' + m_waveInterval
                    /\ events'[k].pktCount = lastOp'.n - 1
      ]_vars

C3_Witness ==
    /\ lastOp.op = "GenerateWaveTraffic" /\ lastOp.n = 2
    /\ ~IsMoving(lastOp.node)
    /\ \E k \in GenEventsOf(events, lastOp.node) :
          events[k].ts = now + m_waveInterval /\ events[k].pktCount = 1

\* the zero-count invocation of sender i's chain comes before the stop event
ClosesBeforeStop(i) ==
    chainStart[i] + m_numWavePackets * m_waveInterval < m_TotalTime

\* C4: an invocation with remainingCount 0 closes the sender's endpoint and
\* does nothing else: no beacon, no counter changed, no further generator
\* event for the sender.  A chain started with a finite budget reaches it when
\* the simulation is not stopped first, and else the simulation stops.
C4_CloseStep ==
    [][\A i \in Nodes :
          (GenStep(i) /\ lastOp'.n = 0) =>
              /\ closed'[i]
              /\ \A j \in Nodes \ {i} : closed'[j] = closed[j]
              /\ UNCHANGED inflight
              /\ UNCHANGED counters
              /\ GenEventsOf(events', i) = {}
      ]_vars

C4_ZeroCountCloses ==
    /\ C4_CloseStep
    /\ \A i \in Nodes : <>(closed[i] \/ pc = "stopped")
    /\ \A i \in Nodes : <>(ClosesBeforeStop(i) => closed[i])

C4_Witness ==
    /\ lastOp.op = "GenerateWaveTraffic" /\ lastOp.n = 0
    /\ closed[lastOp.node]
    /\ GenEventsOf(events, lastOp.node) = {}
    /\ now = chainStart[lastOp.node] + m_numWavePackets * m_waveInterval
    /\ pc = "running"

\* C5 as stated: with a budget of 3 a sender moving at every tick sends at
\* start, start + interval and start + 2 interval, and the third send ends the
\* chain: no generator event of the sender exists at start + 3 interval.
C5_NoEventAfterThirdSend ==
    \A i \in Nodes :
        (m_numWavePackets = 3 /\ inflight[i][Other(i)] = 3) =>
            /\ \A k \in GenEventsOf(events, i) :
                  events[k].ts # chainStart[i] + 3 * m_waveInterval
            /\ ~(/\ lastOp.op = "GenerateWaveTraffic" /\ lastOp.node = i
                 /\ now = chainStart[i] + 3 * m_waveInterval)

\* C5 amended: with a budget of 3 the invocation with remainingCount n > 0
\* comes at start + (3 - n) interval, sends one beacon when the sender is
\* moving and schedules the invocation with n - 1 one interval later; the
\* invocation with remainingCount 0, at start + 3 interval, sends nothing and
\* closes the endpoint.
C5_BudgetThreeChain ==
    [][\A i \in Nodes :
          (GenStep(i) /\ m_numWavePackets = 3) =>
              /\ lastOp'.n \in 0 .. 3
              /\ now' = chainStart[i] + (3 - lastOp'.n) * m_waveInterval
              /\ (lastOp'.n > 0 /\ IsMoving(i)) => OneBeaconSentBy(i)
              /\ (lastOp'.n > 0) =>
                    \E k \in GenEventsOf(events', i) :
                        /\ events'[k].ts = chainStart[i]
                                             + (4 - lastOp'.n) * m_waveInterval
                        /\ events'[k].pktCount = lastOp'.n - 1
              /\ (lastOp'.n = 0) =>
                    /\ UNCHANGED inflight
                    /\ closed'[i]
                    /\ GenEventsOf(events', i) = {}
      ]_vars

C5_Witness ==
    /\ m_numWavePackets = 3
    /\ lastOp.op = "GenerateWaveTraffic" /\ lastOp.n = 0
    /\ now = chainStart[lastOp.node] + 3 * m_waveInterval
    /\ inflight[lastOp.node][Other(lastOp.node)] = 3
    /\ closed[lastOp.node]

\* C6: one invocation of ReceiveWavePacket empties the socket's queue and adds
\* 1 to wavePktReceiveCount for every datagram it held, whatever the motion of
\* the receiver and whoever the sender.
C6_DrainAll ==
    [][\A i \in Nodes :
          RecvStep(i) =>
              /\ rxQueue'[i] = <<>>
              /\ wavePktReceiveCount' = wavePktReceiveCount + Len(rxQueue[i])
      ]_vars

C6_Witness ==
    /\ lastOp.op = "ReceiveWavePacket" /\ lastOp.n = 2
    /\ ~IsMoving(lastOp.node)
    /\ rxQueue[lastOp.node] = <<>>
    /\ wavePktReceiveCount >= 2

\* C7: when a moving receiver drains beacons whose senders all resolve,
\* wavePktInCoverageReceiveCount grows by exactly the number of those beacons
\* whose sender is within the safety range of the receiver at that moment.
C7_InCoverageIff ==
    [][\A i \in Nodes :
          (/\ RecvStep(i) /\ IsMoving(i)
           /\ \A k \in 1 .. Len(rxQueue[i]) : Resolves(rxQueue[i][k])) =>
              wavePktInCoverageReceiveCount' =
                  wavePktInCoverageReceiveCount
                    + Cardinality(CountedIn(rxQueue[i], i))
      ]_vars

C7_Witness ==
    /\ lastOp.op = "ReceiveWavePacket" /\ lastOp.n = 1
    /\ IsMoving(lastOp.node)
    /\ foreignLeft = MaxForeign
    /\ wavePktReceiveCount = 1
    /\ wavePktInCoverageReceiveCount = 0
    /\ ~InCoverage(lastOp.node, Other(lastOp.node))

\* C8: a beacon drained by a stationary receiver adds 1 to wavePktReceiveCount
\* and leaves wavePktInCoverageReceiveCount as it was, also when its sender is
\* within the safety range.
C8_StationaryReceiver ==
    [][\A i \in Nodes :
          (RecvStep(i) /\ ~IsMoving(i)) =>
              /\ wavePktReceiveCount' = wavePktReceiveCount + Len(rxQueue[i])
              /\ UNCHANGED wavePktInCoverageReceiveCount
      ]_vars

C8_Witness ==
    /\ lastOp.op = "ReceiveWavePacket" /\ lastOp.n = 1
    /\ ~IsMoving(lastOp.node)
    /\ foreignLeft = MaxForeign
    /\ InCoverage(lastOp.node, Other(lastOp.node))
    /\ wavePktReceiveCount = 1
    /\ wavePktInCoverageReceiveCount = 0

\* some datagram of queue q carries no sender tag or a tag no transmitter owns
HasUnresolved(q) == \E k \in 1 .. Len(q) : ~Resolves(q[k])

\* C9: a datagram without a sender tag, or with a tag that matches no
\* transmitter, counts in wavePktReceiveCount and not in
\* wavePktInCoverageReceiveCount; the run goes on and the other beacons of the
\* queue are accounted as usual.
C9_UnresolvedSender ==
    [][\A i \in Nodes :
          (RecvStep(i) /\ HasUnresolved(rxQueue[i])) =>
              /\ wavePktReceiveCount' = wavePktReceiveCount + Len(rxQueue[i])
              /\ wavePktInCoverageReceiveCount' =
                     wavePktInCoverageReceiveCount
                       + (IF IsMoving(i)
                          THEN Cardinality(CountedIn(rxQueue[i], i))
                          ELSE 0)
              /\ rxQueue'[i] = <<>>
              /\ pc' = "running"
      ]_vars

C9_Witness ==
    /\ lastOp.op = "ReceiveWavePacket" /\ lastOp.n = 2
    /\ IsMoving(lastOp.node)
    /\ foreignLeft = 0
    /\ now < chainStart[lastOp.node] + m_waveInterval - 1
    /\ wavePktReceiveCount = 2
    /\ wavePktInCoverageReceiveCount = 1
    /\ pc = "running"

\* both nodes are moving and exactly the safety range apart
AtBoundary(i) ==
    /\ IsMoving(i)
    /\ \A j \in Nodes \ {i} :
          IsMoving(j) /\ PlanarDistSq(i, j) = m_txSafetyRangeSq

\* C10: a pair whose squared distance equals the threshold is within range,
\* in the scan of the sender and in the test of the receiver alike.
C10_BoundaryInclusive ==
    [][\A i \in Nodes :
          /\ (GenStep(i) /\ lastOp'.n > 0 /\ AtBoundary(i)) =>
                wavePktExpectedReceiveCount' =
                    wavePktExpectedReceiveCount + (m_nNodes - 1)
          /\ (/\ RecvStep(i) /\ AtBoundary(i)
              /\ \A k \in 1 .. Len(rxQueue[i]) : Resolves(rxQueue[i][k])) =>
                wavePktInCoverageReceiveCount' =
                    wavePktInCoverageReceiveCount + Len(rxQueue[i])
      ]_vars

C10_Witness ==
    /\ lastOp.op = "ReceiveWavePacket" /\ lastOp.n = 1
    /\ AtBoundary(lastOp.node)
    /\ foreignLeft = MaxForeign
    /\ now = chainStart[lastOp.node]
    /\ wavePktSendCount = 1
    /\ wavePktExpectedReceiveCount = 1
    /\ wavePktReceiveCount = 1
    /\ wavePktInCoverageReceiveCount = 1

\* the step is an invocation of CheckThroughput
SampleStep == lastOp'.op = "CheckThroughput"

\* the last row of the interval output
LastRow(rows) == rows[Len(rows)]

\* fraction f is a finite number and equals a / b
IsQuotient(f, a, b) == f[2] > 0 /\ f[1] * b = f[2] * a

IsZero(f) == f[2] > 0 /\ f[1] = 0

\* C11: the row of a sample reports the counts of beacons received and sent
\* since the previous sample and, as interval PDR, their quotient when
\* wavePktSendCount > 0 and 0 when it is 0, never the outcome of a division by
\* zero.
C11_IntervalPdr ==
    [][SampleStep =>
          LET row == LastRow(m_CSVfileName')
          IN  /\ Len(m_CSVfileName') = Len(m_CSVfileName) + 1
              /\ row.wavePktReceiveCount = wavePktReceiveCount
              /\ row.wavePktSendCount = wavePktSendCount
              /\ row.wavePDR[2] > 0
              /\ (wavePktSendCount > 0) =>
                    IsQuotient(row.wavePDR, wavePktReceiveCount, wavePktSendCount)
              /\ (wavePktSendCount = 0) => IsZero(row.wavePDR)
      ]_vars

C11_Witness ==
    /\ lastOp.op = "CheckThroughput"
    /\ \E k \in 1 .. Len(m_CSVfileName) :
          /\ m_CSVfileName[k].wavePktSendCount = 0
          /\ m_CSVfileName[k].wavePktReceiveCount > 0
          /\ IsZero(m_CSVfileName[k].wavePDR)
    /\ \E k \in 1 .. Len(m_CSVfileName) :
          m_CSVfileName[k].wavePktSendCount = 2

\* C12: the cumulative PDR of a row is wavePktInCoverageReceiveCount /
\* wavePktExpectedReceiveCount when the latter is positive and 0 when it is 0,
\* also with wavePktInCoverageReceiveCount > 0; never the outcome of a division
\* by zero.
C12_CumulativePdr ==
    [][SampleStep =>
          LET row == LastRow(m_CSVfileName')
          IN  /\ row.wavePktExpectedReceiveCount = wavePktExpectedReceiveCount
              /\ row.wavePktInCoverageReceiveCount = wavePktInCoverageReceiveCount
              /\ row.wavePDR2[2] > 0
              /\ (wavePktExpectedReceiveCount > 0) =>
                    IsQuotient(row.wavePDR2, wavePktInCoverageReceiveCount,
                               wavePktExpectedReceiveCount)
              /\ (wavePktExpectedReceiveCount = 0) => IsZero(row.wavePDR2)
      ]_vars

C12_Witness ==
    /\ lastOp.op = "CheckThroughput"
    /\ LastRow(m_CSVfileName).wavePktExpectedReceiveCount = 0
    /\ LastRow(m_CSVfileName).wavePktInCoverageReceiveCount > 0
    /\ IsZero(LastRow(m_CSVfileName).wavePDR2)

\* C13: after every sample wavePktReceiveCount, wavePktSendCount, bytesTotal
\* and packetsReceived are 0, and wavePktExpectedReceiveCount and
\* wavePktInCoverageReceiveCount are what they were before the sample.
C13_SampleResets ==
    [][SampleStep =>
          /\ wavePktReceiveCount' = 0
          /\ wavePktSendCount' = 0
          /\ bytesTotal' = 0
          /\ packetsReceived' = 0
          /\ UNCHANGED <<wavePktExpectedReceiveCount,
                         wavePktInCoverageReceiveCount>>
      ]_vars

C13_Witness ==
    /\ lastOp.op = "CheckThroughput"
    /\ LastRow(m_CSVfileName).wavePktReceiveCount > 0
    /\ LastRow(m_CSVfileName).wavePktSendCount > 0
    /\ LastRow(m_CSVfileName).packetsReceived > 0
    /\ LastRow(m_CSVfileName).kbs[1] > 0
    /\ wavePktExpectedReceiveCount > 0
    /\ wavePktInCoverageReceiveCount > 0
    /\ wavePktReceiveCount = 0 /\ wavePktSendCount = 0
    /\ bytesTotal = 0 /\ packetsReceived = 0

\* rows k and k + 1 of the interval output come from two samples with no send
\* and no receive between them
QuietPair(k) ==
    /\ m_CSVfileName[k + 1].wavePktSendCount = 0
    /\ m_CSVfileName[k + 1].wavePktReceiveCount = 0

\* C14 as stated: two samples with no send or receive between them write two
\* rows that both have interval PDR 0 and that have the same cumulative PDR.
C14_BothRowsZero ==
    \A k \in 1 .. (Len(m_CSVfileName) - 1) :
        QuietPair(k) =>
            /\ IsZero(m_CSVfileName[k].wavePDR)
            /\ IsZero(m_CSVfileName[k + 1].wavePDR)
            /\ m_CSVfileName[k].wavePDR2 = m_CSVfileName[k + 1].wavePDR2

\* C14 amended: of two samples with no send or receive between them the second
\* writes a row with interval PDR 0 and with the cumulative PDR, and the
\* cumulative counts, of the row of the first.
C14_SecondRowZero ==
    \A k \in 1 .. (Len(m_CSVfileName) - 1) :
        QuietPair(k) =>
            /\ IsZero(m_CSVfileName[k + 1].wavePDR)
            /\ m_CSVfileName[k].wavePDR2 = m_CSVfileName[k + 1].wavePDR2
            /\ m_CSVfileName[k].wavePktExpectedReceiveCount =
                   m_CSVfileName[k + 1].wavePktExpectedReceiveCount
            /\ m_CSVfileName[k].wavePktInCoverageReceiveCount =
                   m_CSVfileName[k + 1].wavePktInCoverageReceiveCount

C14_Witness ==
    \E k \in 1 .. (Len(m_CSVfileName) - 1) :
        /\ QuietPair(k)
        /\ m_CSVfileName[k].wavePDR = <<1, 2>>
        /\ m_CSVfileName[k].wavePktExpectedReceiveCount > 0
        /\ IsZero(m_CSVfileName[k + 1].wavePDR)

\* no beacon has been sent: none is in flight where none is ever delivered
NoBeaconSent == \A s \in Nodes, d \in Nodes : inflight[s][d] = 0

\* C15: a run stopped at 5 simulated seconds without beacon or routing traffic
\* leaves exactly 5 rows in the interval output, of the samples at 0, 1, 2, 3
\* and 4 seconds, each with throughput, interval PDR and cumulative PDR 0: the
\* stop event at 5 seconds runs before the sample scheduled for that instant.
C15_FiveZeroRows ==
    (/\ pc \in {"stopped", "done"}
     /\ m_TotalTime = 5 * Second
     /\ NoBeaconSent
     /\ sinkLeft = MaxSinkPackets) =>
        /\ Len(m_CSVfileName) = 5
        /\ \A k \in 1 .. Len(m_CSVfileName) :
              /\ m_CSVfileName[k].time = (k - 1) * Second
              /\ IsZero(m_CSVfileName[k].kbs)
              /\ IsZero(m_CSVfileName[k].wavePDR)
              /\ IsZero(m_CSVfileName[k].wavePDR2)

C15_Witness ==
    /\ pc = "done"
    /\ now = 5 * Second
    /\ m_TotalTime = 5 * Second
    /\ NoBeaconSent
    /\ Len(m_CSVfileName) = 5
    /\ \E k \in 1 .. Len(events) :
          events[k].fn = "CheckThroughput" /\ events[k].ts = 5 * Second

\* the sample events pending in the event list q
SampleEventsOf(q) == {k \in 1 .. Len(q) : q[k].fn = "CheckThroughput"}

\* C16: the sampler runs every simulated second until the simulation stops:
\* while the simulation runs exactly one sample is pending, each sample leaves
\* the next pending at now + 1 s, and the rows carry the times 0, 1 s, 2 s, ...
C16_SamplerPeriod ==
    /\ [](pc = "running" => Cardinality(SampleEventsOf(events)) = 1)
    /\ [](\A k \in 1 .. Len(m_CSVfileName) :
              m_CSVfileName[k].time = (k - 1) * Second)
    /\ [][SampleStep =>
            /\ LastRow(m_CSVfileName').time = now'
            /\ \A k \in SampleEventsOf(events') :
                  events'[k].ts = now' + Second
         ]_vars

C16_Witness ==
    /\ lastOp.op = "CheckThroughput"
    /\ now = 3 * Second
    /\ Len(m_CSVfileName) = 4
    /\ \E k \in SampleEventsOf(events) : events[k].ts = 4 * Second
    /\ \E k \in 1 .. Len(events) :
          events[k].fn = "Stop" /\ events[k].ts < 4 * Second

\* every chain has used up its budget of beacons
AllTicksDone ==
    /\ pc # "setup"
    /\ \A i \in Nodes : \A k \in GenEventsOf(events, i) : events[k].pktCount = 0

\* every beacon sent has been delivered and drained
AllDelivered ==
    /\ \A s \in Nodes, d \in Nodes : inflight[s][d] = 0
    /\ \A d \in Nodes : rxQueue[d] = <<>>

\* the ordered pairs of distinct nodes
Pairs == {p \in Nodes \X Nodes : p[1] # p[2]}

\* the ordered pairs (sender, receiver) of distinct nodes that are both moving
MovingPairs == {p \in Pairs : IsMoving(p[1]) /\ IsMoving(p[2])}

C18_OneSummaryRow ==
    /\ Len(m_CSVfileName2) = (IF pc = "done" THEN 1 ELSE 0)
    /\ (pc = "done") =>
          LET bsm_pdr == m_CSVfileName2[1].bsm_pdr
          IN  /\ bsm_pdr[2] > 0
              /\ (wavePktExpectedReceiveCount > 0) =>
                    IsQuotient(bsm_pdr, wavePktInCoverageReceiveCount,
                               wavePktExpectedReceiveCount)
              /\ (wavePktExpectedReceiveCount = 0) => IsZero(bsm_pdr)
              /\ bsm_pdr = WavePDR2(wavePktInCoverageReceiveCount,
                                    wavePktExpectedReceiveCount)

C18_Witness ==
    /\ pc = "done"
    /\ lastOp.op = "WriteSummary"
    /\ Len(m_CSVfileName2) = 1
    /\ wavePktExpectedReceiveCount = 2
    /\ wavePktInCoverageReceiveCount = 1
    /\ m_CSVfileName2[1].bsm_pdr = <<1, 2>>

\* C19: nothing keeps wavePktInCoverageReceiveCount at or below
\* wavePktExpectedReceiveCount: a drain by a moving receiver that holds a
\* beacon from a sender in range raises it above wavePktExpectedReceiveCount
\* when the two were equal, and leaves wavePktExpectedReceiveCount alone.
C19_NotEnforced ==
    [][\A i \in Nodes :
          (/\ RecvStep(i) /\ IsMoving(i)
           /\ CountedIn(rxQueue[i], i) # {}
           /\ wavePktInCoverageReceiveCount >= wavePktExpectedReceiveCount) =>
              /\ UNCHANGED wavePktExpectedReceiveCount
              /\ wavePktInCoverageReceiveCount' > wavePktExpectedReceiveCount'
      ]_vars

C19_Witness ==
    /\ lastOp.op = "ReceiveWavePacket"
    /\ IsMoving(lastOp.node)
    /\ wavePktInCoverageReceiveCount > wavePktExpectedReceiveCount
    /\ wavePktExpectedReceiveCount > 0

\* C20: wavePktSendCount and wavePktReceiveCount decrease only in a sample,
\* which sets them to 0; wavePktExpectedReceiveCount and
\* wavePktInCoverageReceiveCount never decrease.
C20_Monotone ==
    [][/\ wavePktExpectedReceiveCount' >= wavePktExpectedReceiveCount
       /\ wavePktInCoverageReceiveCount' >= wavePktInCoverageReceiveCount
       /\ (~SampleStep) =>
             /\ wavePktSendCount' >= wavePktSendCount
             /\ wavePktReceiveCount' >= wavePktReceiveCount
       /\ (wavePktSendCount' < wavePktSendCount) =>
             (SampleStep /\ wavePktSendCount' = 0)
       /\ (wavePktReceiveCount' < wavePktReceiveCount) =>
             (SampleStep /\ wavePktReceiveCount' = 0)
      ]_vars

C20_Witness ==
    /\ lastOp.op = "CheckThroughput"
    /\ LastRow(m_CSVfileName).wavePktSendCount = 2
    /\ LastRow(m_CSVfileName).wavePktReceiveCount = 3
    /\ wavePktSendCount = 0
    /\ wavePktReceiveCount = 0
    /\ wavePktExpectedReceiveCount = 2
    /\ wavePktInCoverageReceiveCount = 2

\* the candidates sender i's scan counts before it comes to a node without a
\* mobility model
ScannedBeforeGap(i) ==
    {j \in Eligible(i) : \A m \in Nodes \ {i} : ~hasMobility[m] => j < m}

\* some datagram of queue q is tagged with the address of a transmitter that
\* has no mobility model
HasGapSender(q) ==
    \E k \in 1 .. Len(q) :
        Resolves(q[k]) /\ ~hasMobility[SenderOf(q[k])]

\* C21: a tick with budget left whose sender has no mobility model ends the
\* run before anything is sent or counted; a tick of a moving sender whose scan
\* comes to a node without a mobility model ends the run after the send, the
\* increment of wavePktSendCount and the candidates counted so far, and before
\* the reschedule; a drain on the socket of a node without a mobility model
\* ends the run after the first datagram has been counted as received; a
\* drain by a moving receiver of a beacon whose sender has none ends the run.
\* The run ends only so, and once it has ended no event is processed, no
\* counter changes and no row is written.
C21_MissingMobilityAborts ==
    [][/\ \A i \in Nodes :
             (GenStep(i) /\ lastOp'.n > 0 /\ ~hasMobility[i]) =>
                 /\ pc' = "aborted"
                 /\ UNCHANGED <<counters, inflight, output>>
                 /\ GenEventsOf(events', i) = {}
       /\ \A i \in Nodes :
             (/\ GenStep(i) /\ lastOp'.n > 0
              /\ hasMobility[i] /\ IsMoving(i)
              /\ \E j \in Nodes \ {i} : ~hasMobility[j]) =>
                 /\ pc' = "aborted"
                 /\ OneBeaconSentBy(i)
                 /\ wavePktSendCount' = wavePktSendCount + 1
                 /\ wavePktExpectedReceiveCount' =
                        wavePktExpectedReceiveCount
                          + Cardinality(ScannedBeforeGap(i))
                 /\ GenEventsOf(events', i) = {}
       /\ \A i \in Nodes :
             (RecvStep(i) /\ ~hasMobility[i]) =>
                 /\ pc' = "aborted"
                 /\ wavePktReceiveCount' = wavePktReceiveCount + 1
                 /\ rxQueue'[i] = Tail(rxQueue[i])
                 /\ UNCHANGED wavePktInCoverageReceiveCount
       /\ \A i \in Nodes :
             (/\ RecvStep(i) /\ hasMobility[i] /\ IsMoving(i)
              /\ HasGapSender(rxQueue[i])) =>
                 pc' = "aborted"
       /\ (pc' = "aborted" /\ pc # "aborted") =>
             \E i \in Nodes :
                 \/ /\ GenStep(i) /\ lastOp'.n > 0
                    /\ \/ ~hasMobility[i]
                       \/ IsMoving(i) /\ \E j \in Nodes \ {i} : ~hasMobility[j]
                 \/ /\ RecvStep(i)
                    /\ ~hasMobility[i] \/ HasGapSender(rxQueue[i])
       /\ (pc = "aborted") => UNCHANGED vars
      ]_vars

C21_Witness ==
    /\ pc = "aborted"
    /\ lastOp.op = "GenerateWaveTraffic" /\ lastOp.n > 0
    /\ hasMobility[lastOp.node] /\ IsMoving(lastOp.node)
    /\ ~hasMobility[Other(lastOp.node)]
    /\ inflight[lastOp.node][Other(lastOp.node)] = 1
    /\ wavePktSendCount = 1
    /\ now = chainStart[lastOp.node]
    /\ Len(m_CSVfileName) = 2
    /\ m_CSVfileName2 = <<>>
    /\ events # <<>>

\* C22: m_txSafetyRangeSq is written by CommandSetup, with the square of
\* --txdist, and by SetupScenario, in scenario 5 with the square of 145, and
\* by nothing else: no generator tick, no drain and no sample changes it, and
\* from the end of the scenario setup on it keeps its value, the threshold of
\* every scan of the run.
C22_RangeSetAtStartup ==
    [][/\ (m_txSafetyRangeSq' # m_txSafetyRangeSq) =>
             lastOp'.op \in {"CommandSetup", "SetupScenario"}
       /\ (lastOp'.op = "CommandSetup") =>
             \E d \in TxDists : m_txSafetyRangeSq' = d * d
       /\ (lastOp'.op = "SetupScenario") =>
             m_txSafetyRangeSq' = (IF m_scenario = 5
                                  THEN DefaultTxDist * DefaultTxDist
                                  ELSE m_txSafetyRangeSq)
       /\ (SampleStep \/ \E i \in Nodes : GenStep(i) \/ RecvStep(i)) =>
             UNCHANGED m_txSafetyRangeSq
       /\ (pc \notin {"constructed", "configured"}) =>
             UNCHANGED m_txSafetyRangeSq
       /\ \A i \in Nodes :
             (GenStep(i) /\ lastOp'.n > 0 /\ IsMoving(i)) =>
                 wavePktExpectedReceiveCount' =
                     wavePktExpectedReceiveCount + Cardinality(Eligible(i))
      ]_vars

C22_Witness ==
    /\ lastOp.op = "ReceiveWavePacket"
    /\ IsMoving(lastOp.node)
    /\ m_scenario = 5
    /\ m_txSafetyRangeSq = DefaultTxDist * DefaultTxDist
    /\ PlanarDistSq(0, 1) > txDist * txDist
    /\ wavePktExpectedReceiveCount = 2
    /\ wavePktInCoverageReceiveCount = 1
    /\ Len(m_CSVfileName) >= 2

\* the step is the setup of the beacon chains
SetupStep == lastOp'.op = "SetupWaveMessages"

\* n is the number of whole intervals between startTime and the end of the run
IsBudget(n) ==
    /\ n * m_waveInterval <= m_TotalTime - startTime
    /\ m_TotalTime - startTime < (n + 1) * m_waveInterval

\* the setup leaves one generator event per node and no other event, with the
\* budget of the run and a first tick later than startTime by less than bound
ChainsStarted(bound) ==
    /\ Len(events') = m_nNodes
    /\ \A i \in Nodes :
          /\ Cardinality(GenEventsOf(events', i)) = 1
          /\ \A k \in GenEventsOf(events', i) :
                /\ events'[k].ts > startTime
                /\ events'[k].ts < startTime + bound
                /\ IsBudget(events'[k].pktCount)

\* no beacon leaves before startTime, and no tick runs before it
NoEarlyBeacon ==
    /\ (now <= startTime) => \A i \in Nodes : beaconsSent[i] = 0
    /\ (lastOp.op = "GenerateWaveTraffic") => now > startTime

\* every tick with budget left of a chain whose jitter is below the interval
\* has run, before the end of the run, when the simulation has stopped
TicksBeforeStop ==
    /\ (lastOp.op = "GenerateWaveTraffic" /\ lastOp.n > 0) => now < m_TotalTime
    /\ (pc \in {"stopped", "done"}) =>
          \A i \in Nodes :
              (chainStart[i] - startTime < m_waveInterval) =>
                  /\ beaconsSent[i] + ticksSkipped[i] = m_numWavePackets
                  /\ \A k \in GenEventsOf(events, i) : events[k].pktCount = 0

C24_ActualWithinExpected ==
    /\ \A a \in Nodes, b \in Nodes :
          a # b => m_adhocTxInterfaces[a] # m_adhocTxInterfaces[b]
    /\ \A a \in Nodes : inflight[a][a] = 0
    /\ wavePktInCoverageReceiveCount <= wavePktExpectedReceiveCount

C24_Witness ==
    /\ lastOp.op = "ReceiveWavePacket"
    /\ wavePktExpectedReceiveCount = 3
    /\ wavePktInCoverageReceiveCount = 3
    /\ \E i \in Nodes : beaconsSent[i] = 2 /\ ticksSkipped[i] = 0
    /\ \E i \in Nodes : beaconsSent[i] = 1 /\ ticksSkipped[i] = 1

\* the beacons the first n senders have sent since the start of the run
RECURSIVE SentByFirst(_)
SentByFirst(n) == IF n = 0 THEN 0 ELSE beaconsSent[n - 1] + SentByFirst(n - 1)

TotalSent == SentByFirst(m_nNodes)

\* the sum of the column WavePktsSent over the rows
RECURSIVE RowsSent(_)
RowsSent(rows) ==
    IF rows = <<>> THEN 0
    ELSE Head(rows).wavePktSendCount + RowsSent(Tail(rows))

\* the sum of the column WavePktsReceived over the rows
RECURSIVE RowsReceived(_)
RowsReceived(rows) ==
    IF rows = <<>> THEN 0
    ELSE Head(rows).wavePktReceiveCount + RowsReceived(Tail(rows))

\* C25: the beacons sent since the start of the run are those the rows
\* written so far report as sent plus wavePktSendCount, and the datagrams
\* drained since the start are those the rows report as received plus
\* wavePktReceiveCount: none is in two rows and none is lost by a reset.
C25_Conservation ==
    /\ TotalSent = RowsSent(m_CSVfileName) + wavePktSendCount
    /\ beaconsDrained = RowsReceived(m_CSVfileName) + wavePktReceiveCount

C25_Witness ==
    /\ lastOp.op = "ReceiveWavePacket"
    /\ TotalSent = 4
    /\ beaconsDrained = 3
    /\ wavePktSendCount = 2
    /\ wavePktReceiveCount = 1
    /\ \E k \in 1 .. Len(m_CSVfileName) :
          /\ m_CSVfileName[k].wavePktSendCount = 2
          /\ m_CSVfileName[k].wavePktReceiveCount = 2

\* C26: with transmitter addresses that differ, wavePktExpectedReceiveCount is
\* at most m_nNodes - 1 times the number of beacons sent in the run and
\* wavePktInCoverageReceiveCount at most the number of datagrams drained in
\* the run; a drain raises wavePktInCoverageReceiveCount by at most the number
\* of datagrams it takes from the socket, one drained beacon by at most 1, and
\* a tick raises wavePktExpectedReceiveCount by at most m_nNodes - 1.
C26_CountBounds ==
    /\ [](/\ wavePktExpectedReceiveCount <= (m_nNodes - 1) * TotalSent
          /\ wavePktInCoverageReceiveCount <= beaconsDrained)
    /\ [][\A i \in Nodes :
            /\ RecvStep(i) =>
                  /\ wavePktInCoverageReceiveCount' <=
                         wavePktInCoverageReceiveCount + Len(rxQueue[i])
                  /\ beaconsDrained' = beaconsDrained + Len(rxQueue[i])
            /\ GenStep(i) =>
                  wavePktExpectedReceiveCount' <=
                      wavePktExpectedReceiveCount
                        + (m_nNodes - 1) * (TotalSent' - TotalSent)
         ]_vars

C26_Witness ==
    /\ lastOp.op = "ReceiveWavePacket" /\ lastOp.n = 1
    /\ TotalSent = 2
    /\ wavePktExpectedReceiveCount = (m_nNodes - 1) * TotalSent
    /\ beaconsDrained = 3
    /\ wavePktInCoverageReceiveCount = 2
    /\ foreignLeft = 0

\* the budget left to sender i: the count of its pending generator event, 0
\* when its chain has ended
BudgetLeft(i) ==
    IF GenEventsOf(events, i) = {} THEN 0
    ELSE events[CHOOSE k \in GenEventsOf(events, i) : TRUE].pktCount

\* C27: a sender started with budget m_numWavePackets has sent at most that
\* many beacons; each tick with budget left either sends one beacon or, the
\* sender being stationary, none, so that beacons sent and stationary ticks
\* add up to the budget used, and to the whole budget when the chain has
\* ended; the zero-count invocation that closes the socket comes at most once,
\* and after it the sender has no tick and sends no beacon.
C27_BudgetRespected ==
    /\ [](pc \notin {"setup", "aborted"} =>
            \A i \in Nodes :
                /\ beaconsSent[i] <= m_numWavePackets
                /\ beaconsSent[i] + ticksSkipped[i] + BudgetLeft(i)
                       = m_numWavePackets
                /\ closed[i] =>
                      /\ beaconsSent[i] = m_numWavePackets - ticksSkipped[i]
                      /\ GenEventsOf(events, i) = {})
    /\ [][\A i \in Nodes :
            /\ (GenStep(i) /\ lastOp'.n > 0 /\ IsMoving(i)) =>
                  /\ beaconsSent'[i] = beaconsSent[i] + 1
                  /\ ticksSkipped'[i] = ticksSkipped[i]
            /\ (GenStep(i) /\ lastOp'.n > 0 /\ ~IsMoving(i)) =>
                  /\ beaconsSent'[i] = beaconsSent[i]
                  /\ ticksSkipped'[i] = ticksSkipped[i] + 1
            /\ (GenStep(i) /\ lastOp'.n = 0) => (~closed[i] /\ closed'[i])
            /\ (~GenStep(i)) =>
                  (beaconsSent'[i] = beaconsSent[i] /\ closed'[i] = closed[i])
            /\ closed[i] =>
                  /\ ~GenStep(i)
                  /\ closed'[i]
                  /\ beaconsSent'[i] = beaconsSent[i]
                  /\ inflight'[i] = inflight[i]
         ]_vars

C27_Witness ==
    /\ pc = "running"
    /\ m_numWavePackets = 3
    /\ \E i \in Nodes :
          /\ closed[i]
          /\ lastOp.op = "GenerateWaveTraffic" /\ lastOp.node = i
          /\ beaconsSent[i] = 2
          /\ ticksSkipped[i] = 1
          /\ inflight[i][Other(i)] = 2

\* C28: an invocation of GenerateWaveTraffic leaves wavePktReceiveCount and
\* wavePktInCoverageReceiveCount as they are; an invocation of
\* ReceiveWavePacket leaves wavePktSendCount and wavePktExpectedReceiveCount
\* as they are and the event list too: it schedules and cancels nothing.
C28_WriterSeparation ==
    [][\A i \in Nodes :
          /\ GenStep(i) =>
                UNCHANGED <<wavePktReceiveCount, wavePktInCoverageReceiveCount>>
          /\ RecvStep(i) =>
                /\ UNCHANGED <<wavePktSendCount, wavePktExpectedReceiveCount>>
                /\ UNCHANGED <<events, now>>
      ]_vars

C28_Witness ==
    /\ lastOp.op = "ReceiveWavePacket" /\ lastOp.n = 2
    /\ wavePktSendCount = 1
    /\ wavePktExpectedReceiveCount = 1
    /\ wavePktReceiveCount = 2
    /\ wavePktInCoverageReceiveCount = 1
    /\ \A i \in Nodes : Cardinality(GenEventsOf(events, i)) = 1
    /\ Cardinality(SampleEventsOf(events)) = 1

====
